---- MODULE Spec2Model ----
(***************************************************************************)
(* Model of the vogue_google_trends_app pipeline:                          *)
(*   celebrities_vogue_articles.py  (collector, date normalizer, assembler)*)
(*   sentiment_analysis.py          (sentiment enricher)                   *)
(*   trends_vogue_app.py            (presentation layer utilities)         *)
(* Each stage is a separate script, so each has its own specification      *)
(* over its own variables; the variables of the other stages stay idle.    *)
(* Text is modelled as a sequence of one-character strings.                *)
(***************************************************************************)
EXTENDS Integers, Sequences, FiniteSets, TLC

VARIABLES
    \* sentiment_analysis.py
    data, idx, r, responses, sentiments, pcE, sentimentFile,
    \* trends_vogue_app.py: parse_artists, clean_artist_name
    value,          \* the argument of parse_artists
    numpyStrict,    \* the build: whether bool() of an empty array raises
    artists,        \* what parse_artists returned (or the exception it raised)
    pcA,
    name,           \* a name, canonicalized nClean times
    cleanedOnce,    \* clean_artist_name of the original name
    nClean,
    \* trends_vogue_app.py: clean_tags
    tag, tagResult, pcT,
    \* trends_vogue_app.py: unique_artists, total_mentions
    series, uniqueCount, mentionCount, pcU,
    \* celebrities_vogue_articles.py: parse_fecha_es
    fecha, fechaResult, pcF,
    \* celebrities_vogue_articles.py: scrape_vogue_celebrities, prepare_dataframe
    num_pages, page, remaining, all_articles, processed_keys,
    seen,           \* how many summary elements were read with each key
    df,             \* the DataFrame handed to prepare_dataframe
    dataset,        \* the DataFrame prepare_dataframe returns
    window_handles, \* the windows open when extract_article_details was left
    pcC,
    \* trends_vogue_app.py: load_data
    csvRows,        \* the rows of the CSV file
    sentimentJson,  \* the entries of the sentiment file
    loaded,         \* the DataFrame load_data returns
    copyOnWrite,    \* the build: whether pandas runs in copy-on-write mode
    pcL,
    \* trends_vogue_app.py: get_trends
    keywords,       \* the keyword list of the last call
    days,           \* (end - start).days of the last call
    upstream,       \* what the service did in the last call
    sent,           \* the keyword lists the last call sent to the service
    trends,         \* the DataFrame the last call returned
    trendsCache,    \* st.cache_data: the results kept, by arguments
    nCalls,
    \* trends_vogue_app.py: the script, rerun on every interaction
    appDf,          \* df after line 158: the rows, as (fecha, artists)
    sliderStrict,   \* the build: whether st.slider rejects min = max
    section,        \* st.session_state.section
    widget,         \* what caused the last run: the widget used, a button
                    \* being named by the section it leads to
    slider,         \* the value of the date slider
    search,         \* the value of the text input
    selected_artist,
    cards,          \* the dates of the cards of the last run, in order
    pcS             \* where the last run ended

enricherVars == <<data, idx, r, responses, sentiments, pcE, sentimentFile>>
artistVars == <<value, numpyStrict, artists, pcA, name, cleanedOnce, nClean>>

tagVars == <<tag, tagResult, pcT>>
statVars == <<series, uniqueCount, mentionCount, pcU>>
fechaVars == <<fecha, fechaResult, pcF>>
collectorVars ==
    <<num_pages, page, remaining, all_articles, processed_keys, seen, df,
      dataset, window_handles, pcC>>

loadVars == <<csvRows, sentimentJson, loaded, copyOnWrite, pcL>>

\* The Streamlit script and the functions it calls on every rerun.
trendVars == <<keywords, days, upstream, sent, trends, trendsCache, nCalls>>
sessionVars ==
    <<appDf, sliderStrict, section, widget, slider, search, selected_artist, cards, pcS>>
appVars == <<trendVars, sessionVars>>

vars ==
    <<enricherVars, artistVars, tagVars, statVars, fechaVars, collectorVars,
      loadVars, appVars>>

\* What each stage leaves alone: the variables of the other stages.
notEnricher ==
    <<artistVars, tagVars, statVars, fechaVars, collectorVars, loadVars,
      appVars>>
notArtists ==
    <<enricherVars, tagVars, statVars, fechaVars, collectorVars, loadVars,
      appVars>>
notTags ==
    <<enricherVars, artistVars, statVars, fechaVars, collectorVars, loadVars,
      appVars>>
notStats ==
    <<enricherVars, artistVars, tagVars, fechaVars, collectorVars, loadVars,
      appVars>>
notFecha ==
    <<enricherVars, artistVars, tagVars, statVars, collectorVars, loadVars,
      appVars>>
notCollector ==
    <<enricherVars, artistVars, tagVars, statVars, fechaVars, loadVars,
      appVars>>
notLoad ==
    <<enricherVars, artistVars, tagVars, statVars, fechaVars, collectorVars,
      appVars>>

notApp ==
    <<enricherVars, artistVars, tagVars, statVars, fechaVars, collectorVars,
      loadVars>>

(***************************************************************************)
(* Bound of the enricher                                                   *)
(***************************************************************************)
MaxArticles == 3

(***************************************************************************)
(* Generic helpers                                                         *)
(***************************************************************************)
Range(s) == {s[i] : i \in DOMAIN s}

SeqsUpTo(S, n) == UNION {[1..k -> S] : k \in 0..n}

NoneVal == "None"

(***************************************************************************)
(* Text: a string is a sequence of one-character strings                   *)
(***************************************************************************)
LowerLetters ==
    <<"a","b","c","d","e","f","g","h","i","j","k","l","m",
      "n","o","p","q","r","s","t","u","v","w","x","y","z">>
UpperLetters ==
    <<"A","B","C","D","E","F","G","H","I","J","K","L","M",
      "N","O","P","Q","R","S","T","U","V","W","X","Y","Z">>

Whitespace == {" ", "\t", "\n"}
Digits == {"0","1","2","3","4","5","6","7","8","9"}

IsCased(c) == c \in Range(LowerLetters) \cup Range(UpperLetters)

\* The character at the place of c in the other table; c itself when it is
\* not in table from.
Translate(c, from, to) ==
    IF c \in Range(from) THEN to[CHOOSE i \in DOMAIN from : from[i] = c] ELSE c

UpperChar(c) == Translate(c, LowerLetters, UpperLetters)
LowerChar(c) == Translate(c, UpperLetters, LowerLetters)

\* str.upper(), str.lower()
Upper(s) == [i \in 1..Len(s) |-> UpperChar(s[i])]
Lower(s) == [i \in 1..Len(s) |-> LowerChar(s[i])]

\* str.title(): a cased character is uppercased when the character before it
\* is not cased, lowercased otherwise.
Title(s) ==
    [i \in 1..Len(s) |->
        IF i > 1 /\ IsCased(s[i - 1]) THEN LowerChar(s[i]) ELSE UpperChar(s[i])]

\* str.capitalize(): first character uppercased, the rest lowercased.
Capitalize(s) ==
    [i \in 1..Len(s) |-> IF i = 1 THEN UpperChar(s[i]) ELSE LowerChar(s[i])]

RECURSIVE LStrip(_, _)
LStrip(s, chars) ==
    IF s # <<>> /\ Head(s) \in chars THEN LStrip(Tail(s), chars) ELSE s

RECURSIVE RStrip(_, _)
RStrip(s, chars) ==
    IF s # <<>> /\ s[Len(s)] \in chars
    THEN RStrip(SubSeq(s, 1, Len(s) - 1), chars)
    ELSE s

\* str.strip(chars); str.strip() strips whitespace.
StripChars(s, chars) == RStrip(LStrip(s, chars), chars)
Strip(s) == StripChars(s, Whitespace)

\* sub in s
Contains(s, sub) ==
    \E i \in 0..(Len(s) - Len(sub)) : SubSeq(s, i + 1, i + Len(sub)) = sub

\* s.replace(c, '') for every c in chars
Remove(s, chars) == SelectSeq(s, LAMBDA c : c \notin chars)

\* s.split(sep) for a one-character separator: always at least one piece.
RECURSIVE Split(_, _)
Split(s, sep) ==
    IF \A i \in 1..Len(s) : s[i] # sep
    THEN <<s>>
    ELSE LET k == CHOOSE i \in 1..Len(s) :
                     s[i] = sep /\ \A j \in 1..(i - 1) : s[j] # sep
         IN <<SubSeq(s, 1, k - 1)>> \o Split(SubSeq(s, k + 1, Len(s)), sep)

RECURSIVE Flatten(_)
Flatten(ss) == IF ss = <<>> THEN <<>> ELSE Head(ss) \o Flatten(Tail(ss))

(***************************************************************************)
(* sentiment_analysis.py : download_sentiment and the script around it     *)
(***************************************************************************)
Bodies == {"body1", "body2"}
Labels == {"POSITIVE", "NEGATIVE"}
HTTP_OK == 200
\* What the sentiment service can answer to one GET: the status code, whether
\* the body parses as JSON, and (for a JSON body) whether it carries the
\* "sentiment" key, its label and its score (in tenths).
Replies ==
    [status_code : {HTTP_OK, 400, 429}, is_json : BOOLEAN,
     has_sentiment : BOOLEAN, sentiment : Labels, score : {3, 9}]

NoReply == [status_code |-> 0, is_json |-> FALSE, has_sentiment |-> FALSE,
            sentiment |-> "", score |-> 0]

\* r.json(): the parsed body, a dict: a key is present when it is in the
\* DOMAIN of the record.  "art" records which request the payload answers.
Json(reply, i) ==
    IF reply.status_code = HTTP_OK /\ reply.has_sentiment
    THEN [art |-> i, sentiment |-> reply.sentiment, score |-> reply.score]
    ELSE [art |-> i, error |-> "error"]

Tally(cnt, label) ==
    IF label \in DOMAIN cnt
    THEN [cnt EXCEPT ![label] = @ + 1]
    ELSE [l \in DOMAIN cnt \cup {label} |-> IF l = label THEN 1 ELSE cnt[l]]

EmptyTally == [l \in {} |-> 0]

\* One iteration of the for loop (lines 16-49) for article idx.
\*  - a body that is not JSON makes r.json() raise a ValueError subclass, which
\*    the except clause catches: the function prints and returns None, and the
\*    script's tuple unpacking of None (line 61) raises TypeError;
\*  - a 200 answer without "sentiment" raises KeyError at line 36;
\*  - a non-200 answer reaches line 45, which reads response.status_code on
\*    the parsed JSON (a dict): AttributeError.
\* Neither KeyError nor AttributeError is a ValueError, so both leave the
\* function and the script before line 63 writes the file.
Request(reply) ==
    /\ pcE = "loop"
    /\ idx <= Len(data)
    /\ r' = reply
    /\ IF ~reply.is_json
       THEN /\ pcE' = "TypeError"
            /\ UNCHANGED <<idx, responses, sentiments>>
       ELSE IF reply.status_code = HTTP_OK
       THEN IF reply.has_sentiment
            THEN /\ sentiments' = Tally(sentiments, reply.sentiment)
                 /\ responses' = Append(responses, Json(reply, idx))
                 /\ idx' = idx + 1
                 /\ pcE' = pcE
            ELSE /\ pcE' = "KeyError"
                 /\ UNCHANGED <<idx, responses, sentiments>>
       ELSE /\ pcE' = "AttributeError"
            /\ UNCHANGED <<idx, responses, sentiments>>
    /\ UNCHANGED <<data, sentimentFile>>
    /\ UNCHANGED notEnricher

\* The loop is exhausted: return (responses, sentiments), line 50, and the
\* script dumps responses to the sentiment file, lines 63-64.
ReturnAndDump ==
    /\ pcE = "loop"
    /\ idx > Len(data)
    /\ pcE' = "done"
    /\ sentimentFile' = responses
    /\ UNCHANGED <<data, idx, r, responses, sentiments>>
    /\ UNCHANGED notEnricher

EnricherAborted == pcE \in {"TypeError", "KeyError", "AttributeError"}

EnricherNext ==
    \/ \E reply \in Replies : Request(reply)
    \/ ReturnAndDump

\* C1: a non-success (non-200) response from the sentiment service is logged
\* and the loop continues: it never aborts the stage, and the finished run has
\* written exactly one response per article, response i answering article i.
C1_NonSuccessContinues ==
    /\ EnricherAborted => r.status_code = HTTP_OK
    /\ pcE = "done" =>
          /\ Len(sentimentFile) = Len(data)
          /\ \A i \in 1..Len(data) : sentimentFile[i].art = i

(***************************************************************************)
(* trends_vogue_app.py : clean_artist_name, parse_artists                  *)
(***************************************************************************)
MaxNameLen == 4
MaxListLen == 2

S_estilo == <<"e","s","t","i","l","o"," ","d","e"," ","v","i","d","a">>
S_zendaya == <<"z","e","n","d","a","y","a">>

BANNED_ARTISTS == {S_estilo}

\* cleaned = name.strip().strip("'").strip('"').strip()
\* return cleaned.title() if cleaned else ""
clean_artist_name(nm) ==
    LET cleaned == Strip(StripChars(StripChars(Strip(nm), {"'"}), {"\""}))
    IN IF cleaned # <<>> THEN Title(cleaned) ELSE <<>>

\* Python values: NaN/None, a number, a string, a list of values.
NanValue == [type |-> "nan"]
IntValue == [type |-> "int"]
StrValue(s) == [type |-> "str", s |-> s]
ListValue(items) == [type |-> "list", items |-> items]

Returned(items) == [kind |-> "list", items |-> items]
Raised(exc) == [kind |-> "raise", exc |-> exc]
NotCalled == [kind |-> "none"]

\* [clean_artist_name(a) for a in names
\*      if clean_artist_name(a).lower() not in BANNED_ARTISTS and clean_artist_name(a)]
CleanAll(names) ==
    LET cleaned == [i \in 1..Len(names) |-> clean_artist_name(names[i])]
    IN SelectSeq(cleaned,
                 LAMBDA c : Lower(c) \notin BANNED_ARTISTS /\ c # <<>>)

\* ast.literal_eval(text) gives a list only for a list display, which opens
\* and closes with a bracket; every exception it raises is swallowed by the
\* bare except.
LiteralEvalIsList(text) ==
    Len(text) >= 2 /\ text[1] = "[" /\ text[Len(text)] = "]"

\* The items of a list display of plain string literals.
LiteralEvalItems(text) ==
    LET inner == Split(SubSeq(text, 2, Len(text) - 1), ",")
    IN [i \in 1..Len(inner) |->
           StrValue(StripChars(Strip(inner[i]), {"'", "\""}))]

\* if pd.isna(value): pd.isna of a list is an array of booleans, and its truth
\* value is that of its only element, ambiguous (ValueError) for two or more
\* elements and, for no element, False or a ValueError depending on the numpy
\* version.
IsNaTruth(v, strict) ==
    CASE v.type = "nan" -> "true"
      [] v.type = "list" ->
            IF Len(v.items) >= 2 THEN "ValueError"
            ELSE IF Len(v.items) = 1
                 THEN (IF v.items[1].type = "nan" THEN "true" ELSE "false")
                 ELSE (IF strict THEN "ValueError" ELSE "false")
      [] OTHER -> "false"

\* The list branch (line 76); a.strip() of an item that is no string raises.
parse_list(items) ==
    IF \E i \in 1..Len(items) : items[i].type # "str"
    THEN Raised("AttributeError")
    ELSE Returned(CleanAll([i \in 1..Len(items) |-> items[i].s]))

RECURSIVE parse_artists(_, _)
parse_artists(v, strict) ==
    LET na == IsNaTruth(v, strict)
    IN CASE na = "ValueError" -> Raised("ValueError")
         [] na = "true" -> Returned(<<>>)
         [] na = "false" /\ v.type = "list" -> parse_list(v.items)
         [] na = "false" /\ v.type = "str" ->
               LET clean_str == Strip(Remove(v.s, {"[", "]"}))
               IN IF LiteralEvalIsList(clean_str)
                  THEN parse_artists(ListValue(LiteralEvalItems(clean_str)), strict)
                  ELSE Returned(CleanAll(Split(clean_str, ",")))
         [] OTHER -> Returned(<<>>)

\* Inputs: every string of at most MaxNameLen characters over a small
\* alphabet of quotes, blanks and letters, two real names, lists of at most
\* MaxListLen items, and the string encodings (repr) of lists of strings.
NameSamples == SeqsUpTo({" ", "'", "\"", "a", "B"}, MaxNameLen) \cup {S_estilo, S_zendaya}

ItemSamples ==
    {StrValue(<<"a"," ","b">>), StrValue(<<"'","B","'">>), StrValue(S_estilo),
     NanValue, IntValue}
ListSamples == {ListValue(l) : l \in SeqsUpTo(ItemSamples, MaxListLen)}

RECURSIVE ReprItems(_)
ReprItems(items) ==
    IF items = <<>> THEN <<>>
    ELSE <<"'">> \o Head(items).s \o <<"'">>
         \o (IF Len(items) > 1 THEN <<",", " ">> ELSE <<>>)
         \o ReprItems(Tail(items))
Repr(items) == <<"[">> \o ReprItems(items) \o <<"]">>

Values ==
    {NanValue, IntValue} \cup ListSamples
    \cup {StrValue(Repr(l.items)) : l \in
            {x \in ListSamples : \A i \in 1..Len(x.items) : x.items[i].type = "str"}}
    \cup {StrValue(s) : s \in NameSamples}
    \cup {StrValue(<<"[","a",",",",","B">>), StrValue(<<"[","[","]">>)}

\* artists = parse_artists(value)
ParseArtists ==
    /\ pcA = "start"
    /\ artists' = parse_artists(value, numpyStrict)
    /\ pcA' = "done"
    /\ UNCHANGED <<value, numpyStrict, name, cleanedOnce, nClean>>
    /\ UNCHANGED notArtists

\* name = clean_artist_name(name), applied to a string and to its own result
CleanArtistName ==
    /\ pcA \in {"start", "done"}
    /\ value.type = "str"
    /\ nClean < 2
    /\ name' = clean_artist_name(name)
    /\ cleanedOnce' = IF nClean = 0 THEN name' ELSE cleanedOnce
    /\ nClean' = nClean + 1
    /\ UNCHANGED <<value, numpyStrict, artists, pcA>>
    /\ UNCHANGED notArtists

ArtistsNext == ParseArtists \/ CleanArtistName

\* C4: parse_artists never raises and always returns a list, whatever its
\* input: null, a list of any length, a string-encoded list, a malformed
\* string, a value of another type.
C4_ParseArtistsTotal == pcA = "done" => artists.kind = "list"

\* C5: clean_artist_name is idempotent: canonicalizing a canonical name
\* changes nothing.
C5_CleanIdempotent == nClean = 2 => name = cleanedOnce

(***************************************************************************)
(* trends_vogue_app.py : TAG_RULES, clean_tags                             *)
(***************************************************************************)
MaxTagFrags == 3

S_MET_GALA == <<"M","E","T"," ","G","A","L","A">>
S_METGALA == <<"M","E","T","G","A","L","A">>
S_PAREJA == <<"P","A","R","E","J","A">>
S_PAREJAS == <<"P","A","R","E","J","A","S">>
S_Met_Gala == <<"M","e","t"," ","G","a","l","a">>
S_Parejas == <<"P","a","r","e","j","a","s">>
\* The dict, in insertion order (the order clean_tags iterates it in).
TAG_RULES_ParejaFirst ==
    << <<S_PAREJA, S_Parejas>>, <<S_PAREJAS, S_Parejas>>,
       <<S_MET_GALA, S_Met_Gala>>, <<S_METGALA, S_Met_Gala>> >>

TAG_RULES ==
    << <<S_MET_GALA, S_Met_Gala>>, <<S_METGALA, S_Met_Gala>>,
       <<S_PAREJA, S_Parejas>>, <<S_PAREJAS, S_Parejas>> >>

\* str(tag)
Str(v) == IF v.type = "str" THEN v.s ELSE <<"n","a","n">>

\* tag = str(tag).upper().strip()
\* for key, value in TAG_RULES.items(): if key in tag: return value
\* return tag.capitalize()
clean_tags(v) ==
    LET t == Strip(Upper(Str(v)))
        hits == {i \in DOMAIN TAG_RULES : Contains(t, TAG_RULES[i][1])}
    IN IF hits # {}
       THEN TAG_RULES[CHOOSE i \in hits : \A j \in hits : i <= j][2]
       ELSE Capitalize(t)

\* Raw tags: concatenations of at most MaxTagFrags fragments, and a missing
\* tag (NaN in the CSV).
TagFrags ==
    { <<"m","e","t">>, <<"M","E","T">>, <<" ">>, <<"g","a","l","a">>,
      <<"G","a","l","a">>, <<"p","a","r","e","j","a">>, S_PAREJAS,
      <<"x">>, <<"r","e","d">>, <<"c","a","r","p","e","t">> }

Tags ==
    {StrValue(Flatten(fs)) : fs \in SeqsUpTo(TagFrags, MaxTagFrags)}
    \cup {NanValue}

\* tagResult = clean_tags(tag)
CleanTags ==
    /\ pcT = "start"
    /\ tagResult' = clean_tags(tag)
    /\ pcT' = "done"
    /\ UNCHANGED tag
    /\ UNCHANGED notTags

HasMetGalaKey(s) == Contains(s, S_METGALA) \/ Contains(s, S_MET_GALA)
HasParejaKey(s) == Contains(s, S_PAREJA) \/ Contains(s, S_PAREJAS)

\* C6: clean_tags depends only on the uppercased input; a tag whose uppercased
\* text contains METGALA or MET GALA maps to "Met Gala" whatever surrounds it
\* (PAREJA included), and a tag containing PAREJA or PAREJAS but no Met Gala
\* key maps to "Parejas".
C6_TagRules ==
    pcT = "done" =>
        LET up == Upper(Str(tag))
        IN /\ tagResult = clean_tags(StrValue(up))
           /\ HasMetGalaKey(up) => tagResult = S_Met_Gala
           /\ (HasParejaKey(up) /\ ~HasMetGalaKey(up)) => tagResult = S_Parejas

\* A mixed-case tag with both a Met Gala key and PAREJA inside other text
\* has been cleaned.
C6_Witness ==
    /\ pcT = "done"
    /\ tag.type = "str"
    /\ tag.s # Upper(tag.s)
    /\ HasMetGalaKey(Upper(tag.s))
    /\ HasParejaKey(Upper(tag.s))
    /\ tagResult = S_Met_Gala

\* C15: a raw tag whose uppercased text contains none of the keys of
\* TAG_RULES comes back title-cased: the first letter of every word in upper
\* case and the rest in lower case ("red carpet" gives "Red Carpet").
C15_OtherwiseTitleCased ==
    pcT = "done" =>
        LET up == Upper(Str(tag))
        IN (~HasMetGalaKey(up) /\ ~HasParejaKey(up)) =>
               tagResult = Title(Strip(up))

(***************************************************************************)
(* trends_vogue_app.py : unique_artists, total_mentions                    *)
(***************************************************************************)
MaxRows == 3
MaxMentions == 2

Entities == {"A", "B"}

\* {a for sub in series for a in sub}, built row by row
RECURSIVE EntitySet(_)
EntitySet(rows) ==
    IF rows = <<>> THEN {}
    ELSE {Head(rows)[j] : j \in 1..Len(Head(rows))} \cup EntitySet(Tail(rows))

\* len(sub) for every sub, without removing duplicates
RECURSIVE MentionSum(_)
MentionSum(rows) ==
    IF rows = <<>> THEN 0 ELSE Len(Head(rows)) + MentionSum(Tail(rows))

unique_artists_NoDedup(rows) == MentionSum(rows)

\* len({a for sub in series for a in sub})
unique_artists(rows) == Cardinality(EntitySet(rows))

\* sum(len(sub) for sub in series)
total_mentions(rows) == MentionSum(rows)

\* The aggregation of one group of rows (lines 98-102, used by the groupby
\* of the general section).
Aggregate ==
    /\ pcU = "start"
    /\ uniqueCount' = unique_artists(series)
    /\ mentionCount' = total_mentions(series)
    /\ pcU' = "done"
    /\ UNCHANGED series
    /\ UNCHANGED notStats

ExampleSeries == << <<"A">>, <<"B">>, <<"A", "B">> >>

\* C9: unique_artists is the number of distinct entities over all the lists,
\* total_mentions the number of mentions (the sum of the list lengths); for
\* [["A"],["B"],["A","B"]] they are 2 and 4.
C9_Counts ==
    pcU = "done" =>
        /\ uniqueCount =
              Cardinality({e \in Entities :
                  \E i \in 1..Len(series) : \E j \in 1..Len(series[i]) :
                      series[i][j] = e})
        /\ mentionCount =
              Cardinality({p \in (1..Len(series)) \X (1..(MaxMentions + 1)) :
                  p[2] <= Len(series[p[1]])})
        /\ series = ExampleSeries => (uniqueCount = 2 /\ mentionCount = 4)

\* The example of the spec has been aggregated.
C9_Witness == pcU = "done" /\ series = ExampleSeries /\ uniqueCount = 2

(***************************************************************************)
(* celebrities_vogue_articles.py : meses, parse_fecha_es                   *)
(***************************************************************************)
S_de == <<" ","d","e"," ">>

\* meses: month name -> month number
meses ==
    << <<"e","n","e","r","o">>, <<"f","e","b","r","e","r","o">>,
       <<"m","a","r","z","o">>, <<"a","b","r","i","l">>, <<"m","a","y","o">>,
       <<"j","u","n","i","o">>, <<"j","u","l","i","o">>,
       <<"a","g","o","s","t","o">>,
       <<"s","e","p","t","i","e","m","b","r","e">>,
       <<"o","c","t","u","b","r","e">>,
       <<"n","o","v","i","e","m","b","r","e">>,
       <<"d","i","c","i","e","m","b","r","e">> >>

DigitValue(c) ==
    CASE c = "0" -> 0 [] c = "1" -> 1 [] c = "2" -> 2 [] c = "3" -> 3
      [] c = "4" -> 4 [] c = "5" -> 5 [] c = "6" -> 6 [] c = "7" -> 7
      [] c = "8" -> 8 [] c = "9" -> 9

RECURSIVE IntOf(_)
IntOf(ds) ==
    IF ds = <<>> THEN 0
    ELSE 10 * IntOf(SubSeq(ds, 1, Len(ds) - 1)) + DigitValue(ds[Len(ds)])

AllIn(s, from, to, class) ==
    to <= Len(s) /\ \A i \in from..to : s[i] \in class

\* The length of the longest run of characters of class that starts at from.
RunLength(s, from, class) ==
    LET ends == {k \in 0..(Len(s) - from + 1) : AllIn(s, from, from + k - 1, class)}
    IN CHOOSE k \in ends : \A j \in ends : j <= k

\* re.match(r"(\d{1,2}) de ([a-záéíóúñ]+) de (\d{4})", s) with a day of nd
\* digits: the groups, or no match.  The month group is followed by a blank,
\* so it is the whole run of letters.
MatchDay(s, nd) ==
    LET m0 == nd + 5
        \* [a-záéíóúñ]+
        ml == RunLength(s, m0, Range(LowerLetters) \cup {"á", "é", "í", "ó", "ú", "ñ"})
        y0 == m0 + ml + 4
    IN IF /\ AllIn(s, 1, nd, Digits)
          /\ SubSeq(s, nd + 1, nd + 4) = S_de
          /\ Len(s) >= nd + 4
          /\ ml >= 1
          /\ Len(s) >= y0 + 3
          /\ SubSeq(s, m0 + ml, m0 + ml + 3) = S_de
          /\ AllIn(s, y0, y0 + 3, Digits)
       THEN [matched |-> TRUE, dia |-> SubSeq(s, 1, nd),
             mes |-> SubSeq(s, m0, m0 + ml - 1),
             anio |-> SubSeq(s, y0, y0 + 3)]
       ELSE [matched |-> FALSE]

\* \d{1,2} is greedy: two digits first, one digit on backtracking.
FechaMatch(s) ==
    IF MatchDay(s, 2).matched THEN MatchDay(s, 2) ELSE MatchDay(s, 1)

NaT == [kind |-> "NaT"]
Date(y, m, d) == [kind |-> "date", y |-> y, m |-> m, d |-> d]

DaysInMonth(y, m) ==
    IF m = 2
    THEN (IF (y % 4 = 0 /\ y % 100 # 0) \/ y % 400 = 0 THEN 29 ELSE 28)
    ELSE IF m \in {4, 6, 9, 11} THEN 30 ELSE 31

\* pd.to_datetime(f"{año}-{meses[mes]}-{dia}"): the Timestamp of a day that
\* exists, a ValueError (DateParseError) for one that does not.  The years
\* drawn here are all within the range of a Timestamp.
to_datetime(y, m, d) ==
    IF d >= 1 /\ d <= DaysInMonth(y, m) THEN Date(y, m, d)
    ELSE Raised("ValueError")

MonthNumber(mes) == CHOOSE i \in DOMAIN meses : meses[i] = mes

parse_fecha_es(v) ==
    IF v.type = "str"
    THEN LET m == FechaMatch(Strip(Lower(v.s)))
         IN IF m.matched /\ m.mes \in Range(meses)
            THEN to_datetime(IntOf(m.anio), MonthNumber(m.mes), IntOf(m.dia))
            ELSE NaT
    ELSE NaT

\* Date texts: prefix, day, " de ", month, " de ", year, suffix, each drawn
\* from a few right and wrong forms; and values that are not strings.
FechaParts ==
    << { <<>>, <<" ">>, <<"x">> },
       { <<"5">>, <<"1","5">>, <<"3","1">>, <<"3","2">>, <<"0">>, <<"1","2","3">> },
       { S_de, <<" ","D","E"," ">>, <<" ">> },
       { <<"m","a","r","z","o">>, <<"F","e","b","r","e","r","o">>,
         <<"a","b","r","i","l">>, <<"m","a","r","c","h">> },
       { S_de, <<" ","d","e","l"," ">> },
       { <<"2","0","2","4">>, <<"2","0","2","5">>, <<"2","4">> },
       { <<>>, <<"x">> } >>

Fechas ==
    {StrValue(Flatten(<<a, b, c, d, e, f, g>>)) :
        a \in FechaParts[1], b \in FechaParts[2], c \in FechaParts[3],
        d \in FechaParts[4], e \in FechaParts[5], f \in FechaParts[6],
        g \in FechaParts[7]}
    \cup {StrValue(<<"h","e","l","l","o">>), StrValue(<<>>), NanValue, IntValue}

\* fechaResult = parse_fecha_es(fecha)
ParseFecha ==
    /\ pcF = "start"
    /\ fechaResult' = parse_fecha_es(fecha)
    /\ pcF' = "done"
    /\ UNCHANGED fecha
    /\ UNCHANGED notFecha

\* Whether the text has the day / Spanish month name / year form with a
\* recognized month.
IsFechaText(v) ==
    /\ v.type = "str"
    /\ FechaMatch(Strip(Lower(v.s))).matched
    /\ FechaMatch(Strip(Lower(v.s))).mes \in Range(meses)

\* C3: parse_fecha_es is total: a text of the day / month name / year form
\* with a recognized month gives the date with that day, month and year, any
\* other input gives the null date, and no input makes it raise.
C3_ParseFechaTotal ==
    pcF = "done" =>
        /\ fechaResult.kind # "raise"
        /\ IF IsFechaText(fecha)
           THEN LET m == FechaMatch(Strip(Lower(fecha.s)))
                IN fechaResult =
                       Date(IntOf(m.anio), MonthNumber(m.mes), IntOf(m.dia))
           ELSE fechaResult = NaT

(***************************************************************************)
(* celebrities_vogue_articles.py : extract_article_details,                *)
(* scrape_vogue_celebrities, prepare_dataframe                             *)
(***************************************************************************)
MaxPages == 2
MaxPerPage == 2
MaxRecords == 2

NA == "N/A"

S_fecha_ok ==
    <<"1","5"," ","d","e"," ","m","a","r","z","o"," ","d","e"," ","2","0","2","4">>
S_fecha_bad == <<"h","o","y">>
\* What a summary element can hold: title, date text, link (None when the
\* anchor has no href), rubric and byline ("" when the element is missing).
FechaTexts == {StrValue(S_fecha_ok), StrValue(S_fecha_bad)}
SummaryElements ==
    { [titulo |-> "titulo1", fecha |-> StrValue(S_fecha_ok),
       link |-> "https://www.vogue.es/articulo", tag |-> "Met Gala", autor |-> "Autor"],
      [titulo |-> "titulo1", fecha |-> StrValue(S_fecha_bad),
       link |-> "https://www.vogue.es/articulo", tag |-> "", autor |-> "Autor"],
      [titulo |-> "titulo2", fecha |-> StrValue(S_fecha_ok),
       link |-> NoneVal, tag |-> "Met Gala", autor |-> ""],
      [titulo |-> "titulo2", fecha |-> StrValue(S_fecha_bad),
       link |-> "https://www.vogue.es/articulo", tag |-> "", autor |-> ""] }

\* How opening and reading the detail page can end: the wait for the second
\* window times out (line 54, before the try; the window may have opened,
\* late or next to a pop-up of the site, or not), the switch to it raises
\* (line 55, before the try), a browser call inside the try raises (lines
\* 65-67), or the body is read (possibly empty).
DetailOutcomes ==
    { [outcome |-> "wait_timeout", opened |-> FALSE],
      [outcome |-> "wait_timeout", opened |-> TRUE],
      [outcome |-> "switch_error"], [outcome |-> "read_error"],
      [outcome |-> "ok", text |-> ""], [outcome |-> "ok", text |-> "Hello world"] }

\* process_string: 'N/A' for an empty text, the normalized text otherwise.
process_string(text) == IF text = "" THEN NA ELSE text

\* The entities spaCy tags PER with more than one word in a body.
PersonEntities(body) == <<"Ana Lopez">>

\* extract_article_details: what it returns, or the exception that leaves it.
\* The finally clause (lines 78-80) closes the tab and re-raises.
extract_article_details(detail) ==
    IF detail.outcome = "wait_timeout" THEN Raised("TimeoutException")
    ELSE IF detail.outcome = "switch_error"
    THEN Raised("NoSuchWindowException")
    ELSE IF detail.outcome = "read_error" THEN Raised("WebDriverException")
    ELSE LET cuerpo_completo == process_string(detail.text)
         IN [kind |-> "details",
             cuerpo_articulo |-> cuerpo_completo,
             artistas_en_articulo |->
                 IF cuerpo_completo # NA
                 THEN ListValue(PersonEntities(cuerpo_completo))
                 ELSE ListValue(<<>>)]

\* The windows open when extract_article_details is left.  Lines 54-55 run
\* before the try: an exception there leaves the function without the
\* finally clause, and the window opened at line 53 (if it did open) stays;
\* from line 58 on the finally clause closes it and switches back.
WindowsAfter(detail) ==
    IF \/ detail.outcome = "wait_timeout" /\ detail.opened
       \/ detail.outcome = "switch_error"
    THEN {"original", "detail"}
    ELSE {"original"}

Keys == {"titulo1", "titulo2"} \X FechaTexts
KeyOf(rec) == <<rec.titulo, rec.fecha>>

\* article_key in processed_keys (line 138)
IsProcessed_Never(key, keys) == FALSE

IsProcessed(key, keys) == key \in keys

\* pd.DataFrame(records): the rows, each with its index label.
DataFrame(records) ==
    [i \in 1..Len(records) |->
        [index |-> i - 1, titulo |-> records[i].titulo,
         fecha |-> records[i].fecha, link |-> records[i].link,
         cuerpo_articulo |-> records[i].cuerpo_articulo,
         artistas_en_articulo |-> records[i].artistas_en_articulo,
         tag |-> records[i].tag, autor |-> records[i].autor]]

\* Lines 113-127: load the next listing page and wait for its summary
\* elements: none within the timeout breaks the loop, and the function
\* returns what it has (lines 168-172).
GetPage(n) ==
    /\ pcC = "pages"
    /\ page < num_pages
    /\ page' = page + 1
    /\ IF n = 0
       THEN /\ pcC' = "returned"
            /\ df' = DataFrame(all_articles)
            /\ UNCHANGED remaining
       ELSE /\ pcC' = "articles"
            /\ remaining' = n
            /\ UNCHANGED df
    /\ UNCHANGED <<num_pages, all_articles, processed_keys, seen, dataset>>
    /\ UNCHANGED window_handles
    /\ UNCHANGED notCollector

\* The loop over the pages is exhausted: lines 168-172.
ReturnArticles ==
    /\ pcC = "pages"
    /\ page = num_pages
    /\ pcC' = "returned"
    /\ df' = DataFrame(all_articles)
    /\ UNCHANGED <<num_pages, page, remaining, all_articles, processed_keys,
                   seen, dataset>>
    /\ UNCHANGED window_handles
    /\ UNCHANGED notCollector

NextArticle == IF remaining = 1 THEN "pages" ELSE "articles"

\* Lines 130-136: reading the title, date or link of the element fails.
SkipUnreadable ==
    /\ pcC = "articles"
    /\ remaining' = remaining - 1
    /\ pcC' = NextArticle
    /\ UNCHANGED <<num_pages, page, all_articles, processed_keys, seen, df,
                   dataset>>
    /\ UNCHANGED window_handles
    /\ UNCHANGED notCollector

\* Lines 138-139: the key was processed before.
SkipDuplicate(el) ==
    /\ pcC = "articles"
    /\ IsProcessed(KeyOf(el), processed_keys)
    /\ seen' = [seen EXCEPT ![KeyOf(el)] = IF @ < 2 THEN @ + 1 ELSE @]
    /\ remaining' = remaining - 1
    /\ pcC' = NextArticle
    /\ UNCHANGED <<num_pages, page, all_articles, processed_keys, df, dataset>>
    /\ UNCHANGED window_handles
    /\ UNCHANGED notCollector

\* Lines 141-166: a new key.  extract_article_details is called outside any
\* try block of the loop, so an exception it raises leaves the loop and,
\* through the outer finally (browser.quit), the function: nothing is
\* returned.  A missing rubric or byline becomes 'N/A'.
ProcessArticle(el, detail) ==
    /\ pcC = "articles"
    /\ ~IsProcessed(KeyOf(el), processed_keys)
    /\ seen' = [seen EXCEPT ![KeyOf(el)] = IF @ < 2 THEN @ + 1 ELSE @]
    /\ LET details == extract_article_details(detail)
       IN IF details.kind = "raise"
          THEN /\ pcC' = "raised"
               /\ UNCHANGED <<remaining, all_articles, processed_keys>>
          ELSE /\ all_articles' = Append(all_articles,
                      [titulo |-> el.titulo, fecha |-> el.fecha,
                       link |-> el.link,
                       cuerpo_articulo |-> details.cuerpo_articulo,
                       artistas_en_articulo |-> details.artistas_en_articulo,
                       tag |-> process_string(el.tag),
                       autor |-> process_string(el.autor)])
               /\ processed_keys' = processed_keys \cup {KeyOf(el)}
               /\ remaining' = remaining - 1
               /\ pcC' = NextArticle
    /\ UNCHANGED <<num_pages, page, df, dataset>>
    /\ window_handles' = WindowsAfter(detail)
    /\ UNCHANGED notCollector

\* prepare_dataframe, lines 175-182.
\*  df['fecha'] of a frame without rows (hence without columns): KeyError;
\*  df['fecha'].apply(parse_fecha_es): an exception of parse_fecha_es leaves
\*  the function;
\*  the rows whose body is 'N/A' or null are dropped, the others keep their
\*  order and index; artistas_en_articulo that is no list becomes [], a null
\*  link becomes ''.
KeepsBody_SentinelOnly(body) == body # NA

KeepsBody(body) == body # NA /\ body # NoneVal

prepare_dataframe(frame) ==
    IF frame = <<>> THEN Raised("KeyError")
    ELSE IF \E i \in 1..Len(frame) : parse_fecha_es(frame[i].fecha).kind = "raise"
    THEN Raised("ValueError")
    ELSE LET parsed == [i \in 1..Len(frame) |->
                 [frame[i] EXCEPT !.fecha = parse_fecha_es(frame[i].fecha)]]
             kept == SelectSeq(parsed, LAMBDA row : KeepsBody(row.cuerpo_articulo))
         IN [kind |-> "frame",
             rows |-> [i \in 1..Len(kept) |->
                 [kept[i] EXCEPT
                     !.artistas_en_articulo =
                         IF @.type = "list" THEN @ ELSE ListValue(<<>>),
                     !.link = IF @ = NoneVal THEN "" ELSE @]]]

PrepareDataframe ==
    /\ pcC = "returned"
    /\ LET out == prepare_dataframe(df)
       IN IF out.kind = "raise"
          THEN pcC' = out.exc /\ UNCHANGED dataset
          ELSE pcC' = "prepared" /\ dataset' = out.rows
    /\ UNCHANGED <<num_pages, page, remaining, all_articles, processed_keys,
                   seen, df>>
    /\ UNCHANGED window_handles
    /\ UNCHANGED notCollector

CollectorNext ==
    \/ \E n \in 0..MaxPerPage : GetPage(n)
    \/ ReturnArticles
    \/ SkipUnreadable
    \/ \E el \in SummaryElements : SkipDuplicate(el)
    \/ \E el \in SummaryElements, d \in DetailOutcomes : ProcessArticle(el, d)
    \/ PrepareDataframe

\* prepare_dataframe called on any list of records (a direct call).
RecordSamples ==
    [titulo : {"titulo1"},
     fecha : FechaTexts \cup {StrValue(<<"3","1">> \o S_de \o <<"a","b","r","i","l">> \o S_de \o <<"2","0","2","4">>)},
     link : {"https://www.vogue.es/articulo", NoneVal},
     cuerpo_articulo : {NA, NoneVal, "Hello world"},
     artistas_en_articulo : {ListValue(<<"Ana Lopez">>), NanValue},
     tag : {NA}, autor : {NA}]

\* The number of dataset rows with a key.  The date of a dataset row is
\* parsed, so its raw date text is that of the collected record with the
\* same index.
CountDatasetKey(key) ==
    Cardinality({i \in 1..Len(dataset) : KeyOf(df[dataset[i].index + 1]) = key})

KeysDistinct(rows) ==
    \A i, j \in 1..Len(rows) : KeyOf(rows[i]) = KeyOf(rows[j]) => i = j

\* C7 as stated: whenever two collected summary elements share a (title, raw
\* date text) key, the assembled dataset holds exactly one record with that
\* key; and the keys of all_articles are pairwise distinct.
C7_ExactlyOnePerKey ==
    /\ KeysDistinct(all_articles)
    /\ pcC = "prepared" =>
          \A key \in Keys : seen[key] >= 2 => CountDatasetKey(key) = 1

\* C7 as amended: the keys of all_articles are always pairwise distinct, and
\* the assembled dataset holds at most one record per key: exactly one when
\* the body read at the first occurrence of the key is not the 'N/A'
\* sentinel, none when it is.
C7_AtMostOnePerKey ==
    /\ KeysDistinct(all_articles)
    /\ Cardinality(processed_keys) = Len(all_articles)
    /\ pcC = "prepared" =>
          \A key \in Keys :
              /\ CountDatasetKey(key) <= 1
              /\ CountDatasetKey(key) = 1 <=>
                    \E i \in 1..Len(all_articles) :
                        /\ KeyOf(all_articles[i]) = key
                        /\ all_articles[i].cuerpo_articulo # NA

\* A key was met twice and the dataset was assembled with its one record.
C7_Witness ==
    /\ pcC = "prepared"
    /\ \E key \in Keys : seen[key] >= 2 /\ CountDatasetKey(key) = 1

\* C8: prepare_dataframe keeps a record if and only if its body is present
\* and is not the 'N/A' sentinel, and the kept records keep their order.
C8_BodyFilter ==
    pcC = "prepared" =>
        /\ {dataset[k].index : k \in 1..Len(dataset)} =
              {i - 1 : i \in {j \in 1..Len(df) :
                  df[j].cuerpo_articulo \notin {NA, NoneVal}}}
        /\ \A k \in 1..Len(dataset) :
              /\ dataset[k].cuerpo_articulo = df[dataset[k].index + 1].cuerpo_articulo
              /\ dataset[k].titulo = df[dataset[k].index + 1].titulo
        /\ \A k \in 1..(Len(dataset) - 1) : dataset[k].index < dataset[k + 1].index

\* A frame with a kept record after a null body and a sentinel body, or a kept
\* record between them, was prepared.
C8_Witness ==
    /\ pcC = "prepared"
    /\ Len(dataset) >= 1
    /\ \E i, j \in 1..Len(df) :
          df[i].cuerpo_articulo \in {NA, NoneVal} /\ df[j].cuerpo_articulo = "Hello world"

\* C10: a failed extraction or a timeout while processing one article only
\* skips that article: the run is never aborted by it.
C10_FailureSkipsArticle == pcC # "raised"

\* C11: extract_article_details always leaves with the window it opened
\* closed and the original window current, whether the extraction succeeds
\* or fails at any step after the window is asked for (the wait for it
\* included): only the original window is open when it is left, hence at
\* the start of each article.
C11_ContextTornDown == pcC # "idle" => window_handles \subseteq {"original"}

(***************************************************************************)
(* trends_vogue_app.py : load_data                                         *)
(***************************************************************************)
MaxCsvRows == 3
MaxSentiments == 3

\* Rows of the CSV file: the string-encoded list and the raw tag (NaN for an
\* empty cell), the date as pd.to_datetime(errors="coerce") reads it.
CsvSamples ==
    { [titulo |-> "titulo1", fecha |-> Date(2025, 3, 15),
       artistas_en_articulo |-> StrValue(Repr(<<StrValue(S_zendaya)>>)),
       tag |-> StrValue(<<"m","e","t","g","a","l","a">>)],
      [titulo |-> "titulo2", fecha |-> NaT,
       artistas_en_articulo |-> NanValue,
       tag |-> NanValue] }

\* Entries of the sentiment file: a full answer, an answer without score, an
\* error payload.
SentimentEntries ==
    [sentiment : Labels, score : {3, 9}]
    \cup [sentiment : {"NEUTRAL"}]
    \cup {[error |-> "error"]}

NaN == [isna |-> TRUE]
Cell(v) == [isna |-> FALSE, v |-> v]

\* The cell of column col in the row with index label i of the sentiment
\* frame, as pd.concat(axis=1) aligns it with row i of df: NaN when the
\* sentiment frame has no such row or the entry has no such key.
SentimentCell_Reversed(entries, i, col) ==
    LET k == Len(entries) - i
    IN IF k >= 1 /\ k <= Len(entries) /\ col \in DOMAIN entries[k]
       THEN Cell(entries[k][col]) ELSE NaN

SentimentCell(entries, i, col) ==
    IF i + 1 <= Len(entries) /\ col \in DOMAIN entries[i + 1]
    THEN Cell(entries[i + 1][col])
    ELSE NaN

\* df[col].fillna(default, inplace=True): df[col] is a Series taken out of
\* the frame.  Without copy-on-write it shares the column, and filling it in
\* place fills the frame; with copy-on-write (the only mode of pandas 3) the
\* Series is a copy, and the frame keeps its NaN.
Fillna(cell, default, cow) ==
    IF cell.isna /\ ~cow THEN Cell(default) ELSE cell

\* load_data, lines 119-133.  sentiment[["sentiment","confidence"]] raises
\* KeyError when no entry has a "sentiment" key or none has a "score" key
\* (renamed confidence); the concatenation is an outer join on the index, so
\* the frame has as many rows as the longer of the two.
load_data(rows, entries, strict, cow) ==
    \* pd.DataFrame(entries): the columns are the keys met in any entry
    IF ~({"sentiment", "score"}
            \subseteq UNION {DOMAIN entries[i] : i \in 1..Len(entries)})
    THEN Raised("KeyError")
    ELSE [kind |-> "frame",
          rows |-> [k \in 1..(IF Len(rows) >= Len(entries)
                           THEN Len(rows) ELSE Len(entries)) |->
              LET i == k - 1
                  label == SentimentCell(entries, i, "sentiment")
                  score == SentimentCell(entries, i, "score")
              IN [index |-> i,
                  titulo |-> IF k <= Len(rows) THEN rows[k].titulo ELSE NoneVal,
                  fecha |-> IF k <= Len(rows) THEN rows[k].fecha ELSE NaT,
                  artistas_en_articulo |->
                      IF k <= Len(rows)
                      THEN parse_artists(rows[k].artistas_en_articulo, strict)
                      ELSE Returned(<<>>),
                  tag |-> IF k <= Len(rows) THEN clean_tags(rows[k].tag)
                          ELSE <<>>,
                  sentiment |-> Fillna(label, "unknown", cow),
                  confidence |-> Fillna(score, 0, cow)]]]

\* df = load_data()
LoadData ==
    /\ pcL = "start"
    /\ LET out == load_data(csvRows, sentimentJson, numpyStrict, copyOnWrite)
       IN IF out.kind = "raise"
          THEN pcL' = out.exc /\ UNCHANGED loaded
          ELSE pcL' = "loaded" /\ loaded' = out.rows
    /\ UNCHANGED <<csvRows, sentimentJson, copyOnWrite>>
    /\ UNCHANGED notLoad

\* C2: when the sentiment file and the dataset have the same number of
\* entries, the label and the confidence attached to row i are those of
\* sentiment-file entry i, and row i is still dataset row i.
C2_PositionalJoin ==
    (pcL = "loaded" /\ Len(sentimentJson) = Len(csvRows)) =>
        /\ Len(loaded) = Len(csvRows)
        /\ \A i \in 1..Len(csvRows) :
              /\ loaded[i].titulo = csvRows[i].titulo
              /\ "sentiment" \in DOMAIN sentimentJson[i] =>
                    loaded[i].sentiment = Cell(sentimentJson[i].sentiment)
              /\ "score" \in DOMAIN sentimentJson[i] =>
                    loaded[i].confidence = Cell(sentimentJson[i].score)

\* A dataset of at least two rows was joined with as many entries, the first
\* and the last carrying different labels and scores.
C2_Witness ==
    /\ pcL = "loaded"
    /\ Len(sentimentJson) = Len(csvRows)
    /\ Len(csvRows) >= 2
    /\ "score" \in DOMAIN sentimentJson[1]
    /\ "score" \in DOMAIN sentimentJson[Len(csvRows)]
    /\ sentimentJson[1].sentiment # sentimentJson[Len(csvRows)].sentiment
    /\ sentimentJson[1].score # sentimentJson[Len(csvRows)].score
    /\ loaded[1].sentiment = Cell(sentimentJson[1].sentiment)
    /\ loaded[1].confidence = Cell(sentimentJson[1].score)

\* C13: a dataset row with no sentiment entry at its position, or whose entry
\* lacks the label or the score (error payloads included), gets sentiment
\* "unknown" and confidence 0.0, and load_data never fails because sentiment
\* is missing.
C13_MissingSentimentDefaults ==
    /\ pcL \in {"start", "loaded"}
    /\ pcL = "loaded" =>
          \A i \in 1..Len(csvRows) :
              /\ (i > Len(sentimentJson)
                    \/ "sentiment" \notin DOMAIN sentimentJson[i])
                     => loaded[i].sentiment = Cell("unknown")
              /\ (i > Len(sentimentJson)
                    \/ "score" \notin DOMAIN sentimentJson[i])
                     => loaded[i].confidence = Cell(0)

(***************************************************************************)
(* get_trends (trends_vogue_app.py, lines 138-152)                         *)
(***************************************************************************)
MaxKeywords == 6
MaxCalls == 2

MIN_TRENDS_DAYS == 7

\* What the search-interest service does when it is contacted: it answers
\* with data or with no data, TrendReq(...) raises, or build_payload /
\* interest_over_time raises.
Upstream == {"data", "no_data", "TrendReq raises", "request raises"}

\* The body of get_trends (MOCK_TRENDS is False): the keyword lists handed
\* to build_payload and the frame returned, as the columns it has;
\* pd.DataFrame() has none.
get_trends_AllKeywords(kw, d, answer) ==
    IF kw = <<>> \/ d < MIN_TRENDS_DAYS
    THEN [sent |-> <<>>, frame |-> [columns |-> <<>>]]
    ELSE [sent |-> IF answer = "TrendReq raises" THEN <<>> ELSE <<kw>>,
          frame |-> [columns |-> IF answer = "data" THEN kw ELSE <<>>]]

get_trends(kw, d, answer) ==
    IF kw = <<>> \/ d < MIN_TRENDS_DAYS
    THEN [sent |-> <<>>, frame |-> [columns |-> <<>>]]
    ELSE LET payload == SubSeq(kw, 1, IF Len(kw) < 5 THEN Len(kw) ELSE 5)
         IN [sent |-> IF answer = "TrendReq raises"
                      THEN <<>> ELSE <<payload>>,
             frame |-> [columns |-> IF answer = "data"
                                    THEN payload ELSE <<>>]]

\* A call whose arguments st.cache_data has no result for: the body runs
\* and its result is kept.  The keywords are numbered from the last to the
\* first; the range starts on a fixed day and lasts d days.
GetTrends(n, d, answer) ==
    LET kw == [i \in 1..n |-> n + 1 - i]
        out == get_trends(kw, d, answer)
    IN /\ nCalls < MaxCalls
       /\ <<kw, d>> \notin DOMAIN trendsCache
       /\ keywords' = kw
       /\ days' = d
       /\ upstream' = IF kw = <<>> \/ d < MIN_TRENDS_DAYS
                      THEN "not contacted" ELSE answer
       /\ sent' = out.sent
       /\ trends' = out.frame
       /\ trendsCache' = trendsCache @@ (<<kw, d>> :> out.frame)
       /\ nCalls' = nCalls + 1
       /\ UNCHANGED sessionVars
       /\ UNCHANGED notApp

\* A call with arguments called before: the kept result, the body not run.
GetTrendsCached ==
    /\ nCalls < MaxCalls
    /\ \E key \in DOMAIN trendsCache :
          /\ keywords' = key[1]
          /\ days' = key[2]
          /\ trends' = trendsCache[key]
    /\ upstream' = "not contacted"
    /\ sent' = <<>>
    /\ nCalls' = nCalls + 1
    /\ UNCHANGED trendsCache
    /\ UNCHANGED sessionVars
    /\ UNCHANGED notApp

\* ttl=3600: a kept result expires.
CacheExpire ==
    /\ \E key \in DOMAIN trendsCache :
          trendsCache' = [k \in DOMAIN trendsCache \ {key} |-> trendsCache[k]]
    /\ UNCHANGED <<keywords, days, upstream, sent, trends, nCalls>>
    /\ UNCHANGED sessionVars
    /\ UNCHANGED notApp

TrendsNext ==
    \/ \E n \in 0..MaxKeywords,
          d \in {-1, MIN_TRENDS_DAYS - 1, MIN_TRENDS_DAYS},
          answer \in Upstream : GetTrends(n, d, answer)
    \/ GetTrendsCached
    \/ CacheExpire

\* C16: with an empty keyword list or a range of fewer than 7 days get_trends
\* returns an empty frame and sends nothing to the service; otherwise it
\* sends at most one request, carrying the first 5 keywords at most; it
\* returns an empty frame when the service fails.
C16_GetTrends ==
    nCalls > 0 =>
        /\ (keywords = <<>> \/ days < MIN_TRENDS_DAYS) =>
              sent = <<>> /\ trends.columns = <<>>
        /\ Len(sent) <= 1
        /\ \A i \in 1..Len(sent) :
              /\ Len(sent[i]) <= 5
              /\ sent[i] = [k \in 1..Len(sent[i]) |-> keywords[k]]
        /\ upstream \in {"TrendReq raises", "request raises"} =>
              trends.columns = <<>>

\* A call with more than 5 keywords over 7 days was sent to the service.
C16_Witness ==
    /\ Len(keywords) > 5
    /\ days >= MIN_TRENDS_DAYS
    /\ Len(sent) = 1
    /\ trends.columns = sent[1]

(***************************************************************************)
(* The Streamlit script (trends_vogue_app.py, lines 157-532): one run per  *)
(* user interaction, st.session_state and the widget values kept between   *)
(* runs                                                                    *)
(***************************************************************************)
MaxAppRows == 2

\* The names in the dataset, in the order sorted() gives them.
ArtistNames == << <<"A">>, <<"B">> >>

\* Rows of df after line 158: the publish date (a day of 2025) and the
\* parsed artists.
AppRows ==
    [fecha : 1..2,
     artistas : {<<ArtistNames[1]>>, <<ArtistNames[2]>>, ArtistNames}]

\* Lines 167-168: the section of the session, set on its first run.
SessionSection_Reset(sec) == "General"

SessionSection(sec) == IF sec = "unset" THEN "General" ELSE sec

\* One run of the script, from the data df (rows), the session state (sec)
\* and the widget values (sld, srch, sel) of the run before; widget w was
\* given value val.  strict: whether st.slider raises when min = max (it
\* depends on the Streamlit build).  The result names where the run ended: a
\* section name when it ran to the end.
script(rows, sec, w, val, sld, srch, sel, strict) ==
    LET end(at, sec1, sld1, srch1, sel1, shown) ==
            [section |-> sec1, slider |-> sld1, search |-> srch1,
             selected_artist |-> sel1, cards |-> shown, pc |-> at]
        section1 == SessionSection(sec)
        \* lines 230-236
        fechas == {rows[i].fecha : i \in 1..Len(rows)}
        lo == CHOOSE d \in fechas : \A x \in fechas : d <= x
        hi == CHOOSE d \in fechas : \A x \in fechas : d >= x
        dates == IF w = "slider" THEN val
                 ELSE IF sld = <<>> THEN <<lo, hi>> ELSE sld
        df_filtered ==
            SelectSeq(rows, LAMBDA row :
                dates[1] <= row.fecha /\ row.fecha <= dates[2])
        \* lines 241-247
        section2 == IF w = "button" THEN val ELSE section1
        \* lines 424-446
        all_artists ==
            SelectSeq(ArtistNames, LAMBDA a :
                \E i \in 1..Len(df_filtered) :
                    a \in Range(df_filtered[i].artistas))
        text == IF w = "text_input" THEN val ELSE srch
        matched_artists ==
            IF text # <<>>
            THEN SelectSeq(all_artists, LAMBDA a :
                     Contains(Lower(a), Lower(text)))
            ELSE <<>>
        options == IF matched_artists # <<>> THEN matched_artists
                   ELSE all_artists
        choice == IF w = "selectbox" /\ val \in Range(options) THEN val
                  ELSE IF sel \in Range(options) THEN sel
                  ELSE IF options = <<>> THEN <<>> ELSE options[1]
        \* lines 453-455
        artist_df ==
            SelectSeq(df_filtered, LAMBDA row : choice \in Range(row.artistas))
    IN IF rows = <<>>
       THEN end("st.stop 162", sec, <<>>, <<>>, <<>>, <<>>)
       ELSE IF strict /\ lo = hi
       THEN end("raise 230", section1, <<>>, <<>>, <<>>, <<>>)
       ELSE IF section2 = "General"
       THEN end("General", section2, dates, <<>>, <<>>, <<>>)
       ELSE IF matched_artists = <<>> /\ text # <<>>
       THEN end("st.stop 441", section2, dates, text, <<>>, <<>>)
       ELSE IF artist_df = <<>>
       THEN end("st.stop 459", section2, dates, text, choice, <<>>)
       \* lines 514-532: one card per row of artist_df, in its order
       ELSE end("Por Artista", section2, dates, text, choice,
                [i \in 1..Len(artist_df) |-> artist_df[i].fecha])

\* The run caused by opening the page (w = "open"), by a plain rerun, or by
\* an interaction with a widget the run before has shown.
ScriptRun(w, val) ==
    /\ pcS # "idle"
    /\ (w = "open") <=> (pcS = "not run")
    /\ w \in {"slider", "button"} =>
          pcS \in {"General", "Por Artista", "st.stop 441", "st.stop 459"}
    /\ w = "slider" =>
          /\ val[1] <= val[2]
          /\ \E i, j \in 1..Len(appDf) :
                appDf[i].fecha <= val[1] /\ val[2] <= appDf[j].fecha
    /\ w = "text_input" => pcS \in {"Por Artista", "st.stop 441", "st.stop 459"}
    /\ w = "selectbox" => pcS \in {"Por Artista", "st.stop 459"}
    /\ LET out == script(appDf, section, w, val, slider, search,
                         selected_artist, sliderStrict)
       IN /\ section' = out.section
          /\ slider' = out.slider
          /\ search' = out.search
          /\ selected_artist' = out.selected_artist
          /\ cards' = out.cards
          /\ pcS' = out.pc
    /\ widget' = IF w = "button" THEN val ELSE w
    /\ UNCHANGED <<appDf, sliderStrict, trendVars>>
    /\ UNCHANGED notApp

\* C12 as stated: the section is always General or Por Artista and is General
\* on the first run of a session; it changes only when a navigation button
\* is pressed, to the state the button names; slider, text input and other
\* interactions leave it unchanged.
C12_SectionNavigation ==
    /\ [](widget # "none" => section \in {"General", "Por Artista"})
    /\ [](widget = "open" => section = "General")
    /\ [][/\ widget' \in {"General", "Por Artista"} => section' = widget'
          /\ (widget # "none" /\ widget' \notin {"General", "Por Artista"})
                => section' = section]_vars

\* C12, on the runs that reach the session section (lines 167-168), that is
\* all runs but those stopped at line 162 for want of data.
C12_SectionNavigationPastStop ==
    /\ [](pcS \notin {"idle", "not run", "st.stop 162"} =>
             section \in {"General", "Por Artista"})
    /\ []((widget = "open" /\ pcS # "st.stop 162") => section = "General")
    /\ [][/\ widget' \in {"General", "Por Artista"} => section' = widget'
          /\ (widget # "none" /\ widget' \notin {"General", "Por Artista"})
                => section' = section]_vars

\* The section entered by its button has stayed through a text input.
C12_Witness ==
    /\ widget = "text_input"
    /\ search # <<>>
    /\ section = "Por Artista"

\* C14: in per-entity mode the cards of the selected entity are in reverse
\* chronological order: of two consecutive cards the first has a publish
\* date greater than or equal to that of the second, whatever the row order
\* of the dataset file.
C14_CardsNewestFirst ==
    pcS = "Por Artista" =>
        \A i \in 1..(Len(cards) - 1) : cards[i] >= cards[i + 1]

SessionNext ==
    \/ \E w \in {"open", "rerun"} : ScriptRun(w, <<>>)
    \/ \E d1, d2 \in 1..2 : ScriptRun("slider", <<d1, d2>>)
    \/ \E b \in {"General", "Por Artista"} : ScriptRun("button", b)
    \/ \E t \in {<<>>, <<"a">>, <<"z">>} : ScriptRun("text_input", t)
    \/ \E a \in Range(ArtistNames) : ScriptRun("selectbox", a)

(***************************************************************************)
(* Specifications                                                          *)
(***************************************************************************)
\* The state of the stages other than own: they are not running.
Idle(own) ==
    /\ IF own = "Enricher" THEN TRUE
       ELSE /\ data = <<>>
            /\ idx = 0
            /\ r = NoReply
            /\ responses = <<>>
            /\ sentiments = EmptyTally
            /\ pcE = "idle"
            /\ sentimentFile = NoneVal
    /\ IF own = "Artists" THEN TRUE
       ELSE /\ value = NanValue
            /\ numpyStrict = FALSE
            /\ artists = NotCalled
            /\ pcA = "idle"
            /\ name = <<>>
            /\ cleanedOnce = <<>>
            /\ nClean = 0
    /\ IF own = "Tags" THEN TRUE
       ELSE /\ tag = NanValue
            /\ tagResult = <<>>
            /\ pcT = "idle"
    /\ IF own = "Stats" THEN TRUE
       ELSE /\ series = <<>>
            /\ uniqueCount = 0
            /\ mentionCount = 0
            /\ pcU = "idle"
    /\ IF own = "Fecha" THEN TRUE
       ELSE /\ fecha = NanValue
            /\ fechaResult = NotCalled
            /\ pcF = "idle"
    /\ IF own = "Collector" THEN TRUE
       ELSE /\ num_pages = 0
            /\ page = 0
            /\ remaining = 0
            /\ all_articles = <<>>
            /\ processed_keys = {}
            /\ seen = [k \in Keys |-> 0]
            /\ df = <<>>
            /\ dataset = <<>>
            /\ window_handles = {}
            /\ pcC = "idle"
    /\ IF own = "Load" THEN TRUE
       ELSE /\ csvRows = <<>>
            /\ sentimentJson = <<>>
            /\ loaded = <<>>
            /\ copyOnWrite = FALSE
            /\ pcL = "idle"
    /\ IF own = "Trends" THEN TRUE
       ELSE /\ keywords = <<>>
            /\ days = 0
            /\ upstream = "not contacted"
            /\ sent = <<>>
            /\ trends = [columns |-> <<>>]
            /\ trendsCache = <<>>
            /\ nCalls = 0
    /\ IF own = "Session" THEN TRUE
       ELSE /\ appDf = <<>>
            /\ sliderStrict = FALSE
            /\ section = "unset"
            /\ widget = "none"
            /\ slider = <<>>
            /\ search = <<>>
            /\ selected_artist = <<>>
            /\ cards = <<>>
            /\ pcS = "idle"

\* sentiment_analysis.py, run on a file of up to MaxArticles articles.
EnricherInit ==
    /\ data \in SeqsUpTo(Bodies, MaxArticles)
    /\ idx = 1
    /\ r = NoReply
    /\ responses = <<>>
    /\ sentiments = EmptyTally
    /\ pcE = "loop"
    /\ sentimentFile = NoneVal
    /\ Idle("Enricher")
SpecEnricher == EnricherInit /\ [][EnricherNext]_vars

\* parse_artists and clean_artist_name, applied to one cell value.
ArtistsInit ==
    /\ value \in Values
    /\ numpyStrict \in BOOLEAN
    /\ artists = NotCalled
    /\ pcA = "start"
    /\ name = IF value.type = "str" THEN value.s ELSE <<>>
    /\ cleanedOnce = <<>>
    /\ nClean = 0
    /\ Idle("Artists")
SpecArtists == ArtistsInit /\ [][ArtistsNext]_vars

\* clean_tags, applied to one tag cell.
TagsInit ==
    /\ tag \in Tags
    /\ tagResult = <<>>
    /\ pcT = "start"
    /\ Idle("Tags")
SpecTags == TagsInit /\ [][CleanTags]_vars

\* unique_artists and total_mentions, applied to one group of rows.
StatsInit ==
    /\ series \in SeqsUpTo(SeqsUpTo(Entities, MaxMentions), MaxRows)
    /\ uniqueCount = 0
    /\ mentionCount = 0
    /\ pcU = "start"
    /\ Idle("Stats")
SpecStats == StatsInit /\ [][Aggregate]_vars

\* parse_fecha_es, applied to one date cell.
FechaInit ==
    /\ fecha \in Fechas
    /\ fechaResult = NotCalled
    /\ pcF = "start"
    /\ Idle("Fecha")
SpecFecha == FechaInit /\ [][ParseFecha]_vars

\* scrape_vogue_celebrities(num_pages) followed by prepare_dataframe.
CollectorInit ==
    /\ num_pages \in 1..MaxPages
    /\ page = 0
    /\ remaining = 0
    /\ all_articles = <<>>
    /\ processed_keys = {}
    /\ seen = [k \in Keys |-> 0]
    /\ df = <<>>
    /\ dataset = <<>>
    /\ window_handles = {"original"}
    /\ pcC = "pages"
    /\ Idle("Collector")
SpecCollector == CollectorInit /\ [][CollectorNext]_vars

\* prepare_dataframe, applied to any list of collected records.
AssemblerInit ==
    /\ num_pages = 0
    /\ page = 0
    /\ remaining = 0
    /\ all_articles = <<>>
    /\ processed_keys = {}
    /\ seen = [k \in Keys |-> 0]
    /\ df \in {DataFrame(recs) : recs \in SeqsUpTo(RecordSamples, MaxRecords)}
    /\ dataset = <<>>
    /\ window_handles = {}
    /\ pcC = "returned"
    /\ Idle("Collector")
SpecAssembler == AssemblerInit /\ [][PrepareDataframe]_vars

\* get_trends, called MaxCalls times at most within one cache.
TrendsInit ==
    /\ keywords = <<>>
    /\ days = 0
    /\ upstream = "not contacted"
    /\ sent = <<>>
    /\ trends = [columns |-> <<>>]
    /\ trendsCache = <<>>
    /\ nCalls = 0
    /\ Idle("Trends")
SpecTrends == TrendsInit /\ [][TrendsNext]_vars

\* A session of the app over a dataset of MaxAppRows rows at most.
SessionInit ==
    /\ appDf \in SeqsUpTo(AppRows, MaxAppRows)
    /\ sliderStrict \in BOOLEAN
    /\ section = "unset"
    /\ widget = "none"
    /\ slider = <<>>
    /\ search = <<>>
    /\ selected_artist = <<>>
    /\ cards = <<>>
    /\ pcS = "not run"
    /\ Idle("Session")
SpecSession == SessionInit /\ [][SessionNext]_vars

\* load_data, applied to a CSV file and a sentiment file.
LoadInit ==
    /\ csvRows \in SeqsUpTo(CsvSamples, MaxCsvRows)
    /\ sentimentJson \in SeqsUpTo(SentimentEntries, MaxSentiments)
    /\ loaded = <<>>
    /\ copyOnWrite \in BOOLEAN
    /\ pcL = "start"
    /\ Idle("Load")
SpecLoad == LoadInit /\ [][LoadData]_vars

====
